---- MODULE Spec2Model ----
(***************************************************************************)
(* The Echo Friendly Acoustics dashboard (streamlist_app.py) as a state    *)
(* machine.  One render pass is the script executed top to bottom; the     *)
(* program counter pc names the statement group about to run.  Between     *)
(* passes only the st.cache_data entry of load_data and the widgets'       *)
(* session values survive.                                                 *)
(*                                                                         *)
(* Input domain: the CSV holds up to MaxRows distinct projects taken from  *)
(* the catalogue Projects.  Date and the numeric columns are populated in  *)
(* every row, and so are Client Sector and Status, whose values become     *)
(* the options of the framework's multiselects; Lead Source, which only    *)
(* the group-by of chart 5 reads, may be empty (pandas reads an empty text *)
(* field as NaN).  NRC ratings are kept in hundredths and timestamps in    *)
(* hours, so all arithmetic is on integers.                                *)
(***************************************************************************)
EXTENDS Integers, Sequences, FiniteSets, TLC

VARIABLES
    file,            \* cleaned_project_data.csv on disk: exists, columns, rows
    cache,           \* the st.cache_data entry of load_data (NoDF: not populated)
    reads,           \* number of times read_csv has read the file's contents
    session,         \* widget key -> value the framework keeps between reruns
    pc,              \* position of the current render pass in the script
    error,           \* exception that ended the pass and the step that raised it
    emitted,         \* kinds of the elements sent to the page in this pass
    df,              \* the script's df
    date_bounds,     \* (min_value, max_value) given to the slider
    sector_options,  \* options given to the sector multiselect
    status_options,  \* options given to the status multiselect
    date_range,      \* value returned by the slider
    sectors,         \* value returned by the sector multiselect
    statuses,        \* value returned by the status multiselect
    df_filtered,     \* index labels of the rows kept by the filter, in frame order
    kpis,            \* total_projects, total_bottles, total_revenue, total_profit, avg_nrc
    cards,           \* the five st.metric cards: label and formatted value
    chart1_data, chart2_data, chart3_data, chart4_data, chart5_data, chart6_data

sessionVars == <<file, cache, reads, session>>
widgetVars == <<date_bounds, sector_options, status_options, date_range, sectors, statuses>>
chartVars == <<chart1_data, chart2_data, chart3_data, chart4_data, chart5_data, chart6_data>>
passVars == <<error, emitted, df, widgetVars, df_filtered, kpis, cards, chartVars>>
vars == <<sessionVars, pc, passVars>>

----------------------------------------------------------------------------
(* Bounds of the model *)

MaxRows == 3        \* rows in the CSV file
MaxReads == 2       \* reads of the file by loads that fail after read_csv

----------------------------------------------------------------------------
(* Columns and input rows *)

NaN == "NaN"        \* pandas' missing value in a text column

Required ==
    {"Date", "Client Sector", "Status", "Lead Source", "Project Name",
     "PET Bottles Diverted", "Sale Price (INR)", "Profit (INR)", "NRC Rating",
     "Square Footage Installed"}

Project(name, day, hour, sector, status, lead, bottles, price, profit, nrc, sqft) ==
    [c \in Required |->
        CASE c = "Date" -> [day |-> day, hour |-> hour]
          [] c = "Client Sector" -> sector
          [] c = "Status" -> status
          [] c = "Lead Source" -> lead
          [] c = "Project Name" -> name
          [] c = "PET Bottles Diverted" -> bottles
          [] c = "Sale Price (INR)" -> price
          [] c = "Profit (INR)" -> profit
          [] c = "NRC Rating" -> nrc
          [] c = "Square Footage Installed" -> sqft]

Projects ==
    {Project("P1", 1, 0,  "A", "Completed", "Referral", 10, 100, 20, 85, 50),
     Project("P2", 3, 13, "B", "Ongoing",   "Website",  20, 200, 40, 70, 60),
     Project("P3", 3, 0,  "A", "Completed", NaN,        10, 300, 60, 85, 70),
     Project("P4", 1, 9,  "C", "Ongoing",   "Referral", 30, 200, 50, 90, 80),
     Project("P5", 1, 0,  "B", "Completed", "Website",  10, 100, 10, 60, 50)}

Range(s) == {s[i] : i \in DOMAIN s}

Tables ==
    {t \in UNION {[1..n -> Projects] : n \in 0..MaxRows} :
        \A i, j \in DOMAIN t : i # j => t[i] # t[j]}

Files ==
    {[exists |-> FALSE, columns |-> {}, rows |-> <<>>]}
    \cup {[exists |-> TRUE, columns |-> Required, rows |-> t] : t \in Tables}
    \cup {[exists |-> TRUE, columns |-> Required \ {c}, rows |-> t] :
            c \in Required, t \in {u \in Tables : Len(u) = 1}}

NoDF == [columns |-> {}, rows |-> <<>>]

----------------------------------------------------------------------------
(* pandas operations used by the script *)

Column(frame, c) == [i \in DOMAIN frame.rows |-> frame.rows[i][c]]

\* pd.to_datetime on the Date column: text -> Timestamp (hours since day 0)
to_datetime(d) == d.day * 24 + d.hour

\* Timestamp.date() / Series.dt.date: the calendar day of a timestamp
date(ts) == ts \div 24

\* read_csv followed by the Date conversion of load_data
ParseCSV(f) ==
    [columns |-> f.columns,
     rows |-> [i \in DOMAIN f.rows |->
                 [c \in Required |->
                    IF c = "Date" THEN to_datetime(f.rows[i][c]) ELSE f.rows[i][c]]]]

RECURSIVE SeqSum(_)
SeqSum(s) == IF s = <<>> THEN 0 ELSE s[1] + SeqSum(Tail(s))

SeqMin(s) == CHOOSE x \in Range(s) : \A y \in Range(s) : x <= y
SeqMax(s) == CHOOSE x \in Range(s) : \A y \in Range(s) : x >= y

\* Series.unique(): the distinct values in order of first appearance (NaN kept)
RECURSIVE unique(_)
unique(s) ==
    IF s = <<>> THEN <<>>
    ELSE LET u == unique(SubSeq(s, 1, Len(s) - 1))
             x == s[Len(s)]
         IN IF x \in Range(u) THEN u ELSE Append(u, x)

\* Series.isin(values): membership
isin(x, values) == x \in values

\* The row mask of lines 85-90; dr is (start, end) in calendar days.
FilterMask_NoStatus(row, dr, secs, stats) ==
    /\ date(row["Date"]) >= dr[1]
    /\ date(row["Date"]) <= dr[2]
    /\ isin(row["Client Sector"], secs)

FilterMask_ExclusiveEnd(row, dr, secs, stats) ==
    /\ date(row["Date"]) >= dr[1]
    /\ date(row["Date"]) < dr[2]
    /\ isin(row["Client Sector"], secs)
    /\ isin(row["Status"], stats)

FilterMask_SelectAllWhenEmpty(row, dr, secs, stats) ==
    /\ date(row["Date"]) >= dr[1]
    /\ date(row["Date"]) <= dr[2]
    /\ (secs = {} \/ isin(row["Client Sector"], secs))
    /\ (stats = {} \/ isin(row["Status"], stats))

FilterMask(row, dr, secs, stats) ==
    /\ date(row["Date"]) >= dr[1]
    /\ date(row["Date"]) <= dr[2]
    /\ isin(row["Client Sector"], secs)
    /\ isin(row["Status"], stats)

\* Boolean indexing df[mask]: the index labels whose mask is true, in frame order
RECURSIVE Select(_, _, _, _, _)
Select(frame, n, dr, secs, stats) ==
    IF n = 0 THEN <<>>
    ELSE LET head == Select(frame, n - 1, dr, secs, stats)
         IN IF FilterMask(frame.rows[n], dr, secs, stats) THEN Append(head, n) ELSE head

\* The column c of the rows with index labels idx
ViewColumn(frame, idx, c) == [k \in DOMAIN idx |-> frame.rows[idx[k]][c]]

\* Series.mean(): sum / count as an exact fraction; 0/0 is the NaN of an empty series
mean(s) == [num |-> SeqSum(s), den |-> Len(s)]

IsNaN(m) == m.den = 0

Digits(n, width) ==
    LET t == ToString(n)
    IN IF width = 3 /\ n < 10 THEN "00" \o t
       ELSE IF (width = 3 /\ n < 100) \/ (width = 2 /\ n < 10) THEN "0" \o t
       ELSE t

\* f"{x:,.0f}" of an integral value: digits with thousands separators
RECURSIVE FormatThousands(_)
FormatThousands(x) ==
    IF x < 1000 THEN ToString(x)
    ELSE FormatThousands(x \div 1000) \o "," \o Digits(x % 1000, 3)

\* f"{avg_nrc:.2f}": the strings the format can give.  NaN prints as "nan".  A mean
\* exactly halfway between two hundredths rounds by its binary value, which the
\* exact fraction does not fix, so both neighbours are possible there.
Fixed2(q) == ToString(q \div 100) \o "." \o Digits(q % 100, 2)

Format2f(m) ==
    IF IsNaN(m) THEN {"nan"}
    ELSE LET q == m.num \div m.den
             r == m.num % m.den
         IN IF 2 * r < m.den THEN {Fixed2(q)}
            ELSE IF 2 * r > m.den THEN {Fixed2(q + 1)}
            ELSE {Fixed2(q), Fixed2(q + 1)}

\* Injective maps 1..n -> 1..n
Perms(n) == {p \in [1..n -> 1..n] : \A i, j \in 1..n : i # j => p[i] # p[j]}

\* The indexers nargsort(vals, kind="quicksort", ascending=True) can return: every
\* ordering of the positions that puts the values in non-decreasing order.  The
\* default kind is not a stable sort, so positions of equal values come in any order.
ArgSorts(vals) ==
    {p \in Perms(Len(vals)) :
        \A i, j \in 1..Len(vals) : i < j => vals[p[i]] <= vals[p[j]]}

Take(s, p) == [i \in DOMAIN p |-> s[p[i]]]

\* Python's order on the text labels that occur (str.__lt__)
LabelOrder == <<"A", "B", "C", "Referral", "Website">>
Rank(label) == CHOOSE i \in DOMAIN LabelOrder : LabelOrder[i] = label

\* The distinct non-missing keys in ascending order (groupby: sort=True, dropna=True)
RECURSIVE SortedKeys(_)
SortedKeys(keys) ==
    IF keys = {} THEN <<>>
    ELSE LET k == CHOOSE x \in keys : \A y \in keys : Rank(x) <= Rank(y)
         IN <<k>> \o SortedKeys(keys \ {k})

RECURSIVE GroupTotal(_, _, _)
GroupTotal(keys, vals, k) ==
    IF keys = <<>> THEN 0
    ELSE (IF keys[1] = k THEN vals[1] ELSE 0) + GroupTotal(Tail(keys), Tail(vals), k)

\* frame.groupby(key)[value].sum(): one (key, total) entry per distinct non-missing
\* key, in ascending key order
GroupBySum_KeepEmptyGroup(keys, vals) ==
    LET ks == SortedKeys(Range(keys) \ {NaN})
    IN IF ks = <<>> THEN <<[key |-> NaN, value |-> 0]>>
       ELSE [i \in DOMAIN ks |-> [key |-> ks[i], value |-> GroupTotal(keys, vals, ks[i])]]

GroupBySum_Count(keys, vals) ==
    LET ks == SortedKeys(Range(keys) \ {NaN})
    IN [i \in DOMAIN ks |->
          [key |-> ks[i], value |-> Cardinality({j \in DOMAIN keys : keys[j] = ks[i]})]]

GroupBySum(keys, vals) ==
    LET ks == SortedKeys(Range(keys) \ {NaN})
    IN [i \in DOMAIN ks |-> [key |-> ks[i], value |-> GroupTotal(keys, vals, ks[i])]]

----------------------------------------------------------------------------
(* The framework: cache, widgets, reruns *)

\* st.cache_data: a populated entry is returned without running load_data's body
CacheHit_Never(c) == FALSE

CacheHit(c) == c # NoDF

\* A widget returns the session's value for its key once it has one, else its default
WidgetValue(key, default) == IF key \in DOMAIN session THEN session[key] ELSE default

Register(key, default) ==
    IF key \in DOMAIN session THEN session ELSE session @@ (key :> default)

\* The (start, end) pairs a range slider over min_value..max_value can return
SliderValues(bounds) ==
    {v \in (bounds[1]..bounds[2]) \X (bounds[1]..bounds[2]) : v[1] <= v[2]}

\* The options of the two multiselects (lines 73-74 and 80-81)
Options_OfDateSelection(frame, c) ==
    LET dr == session["date_range"]
        kept == SelectSeq(frame.rows,
                          LAMBDA r : date(r["Date"]) >= dr[1] /\ date(r["Date"]) <= dr[2])
    IN unique([i \in DOMAIN kept |-> kept[i][c]])

Options(frame, c) == unique(Column(frame, c))

Missing(needed) == needed \ df.columns

NoError == [exc |-> "", at |-> ""]

\* An uncaught exception ends the pass; the framework shows it in place of the rest
Raise(exc) ==
    /\ pc' = "error"
    /\ error' = [exc |-> exc, at |-> pc]

----------------------------------------------------------------------------
(* Initial state: the process has started and no pass has run yet *)

Init ==
    /\ file \in Files
    /\ cache = NoDF
    /\ reads = 0
    /\ session = <<>>
    /\ pc = "config"
    /\ error = NoError
    /\ emitted = <<>>
    /\ df = NoDF
    /\ date_bounds = <<>>
    /\ sector_options = <<>>
    /\ status_options = <<>>
    /\ date_range = <<>>
    /\ sectors = {}
    /\ statuses = {}
    /\ df_filtered = <<>>
    /\ kpis = <<>>
    /\ cards = <<>>
    /\ chart1_data = <<>>
    /\ chart2_data = <<>>
    /\ chart3_data = <<>>
    /\ chart4_data = <<>>
    /\ chart5_data = <<>>
    /\ chart6_data = <<>>

\* What a new pass starts from: the script's locals and the page are fresh
ResetPass ==
    /\ pc' = "config"
    /\ error' = NoError
    /\ emitted' = <<>>
    /\ df' = NoDF
    /\ date_bounds' = <<>>
    /\ sector_options' = <<>>
    /\ status_options' = <<>>
    /\ date_range' = <<>>
    /\ sectors' = {}
    /\ statuses' = {}
    /\ df_filtered' = <<>>
    /\ kpis' = <<>>
    /\ cards' = <<>>
    /\ chart1_data' = <<>>
    /\ chart2_data' = <<>>
    /\ chart3_data' = <<>>
    /\ chart4_data' = <<>>
    /\ chart5_data' = <<>>
    /\ chart6_data' = <<>>

----------------------------------------------------------------------------
(* The script, statement group by statement group *)

\* lines 8-42: page config and the style block
Config ==
    /\ pc = "config"
    /\ emitted' = Append(emitted, "style")
    /\ pc' = "load"
    /\ UNCHANGED <<sessionVars, error, df, widgetVars, df_filtered, kpis, cards, chartVars>>

\* lines 45-52: df = load_data() under st.cache_data
Load ==
    /\ pc = "load"
    /\ IF CacheHit(cache)
       THEN /\ df' = cache
            /\ pc' = "title"
            /\ UNCHANGED <<cache, reads, error>>
       ELSE IF ~file.exists
       THEN /\ Raise("FileNotFoundError")
            /\ UNCHANGED <<cache, reads, df>>
       ELSE IF "Date" \notin file.columns
       THEN /\ reads' = reads + 1
            /\ Raise("KeyError")
            /\ UNCHANGED <<cache, df>>
       ELSE /\ reads' = reads + 1
            /\ cache' = ParseCSV(file)
            /\ df' = ParseCSV(file)
            /\ pc' = "title"
            /\ UNCHANGED error
    /\ UNCHANGED <<file, session, emitted, widgetVars, df_filtered, kpis, cards, chartVars>>

\* lines 55-59: title, rule, sidebar header
Title ==
    /\ pc = "title"
    /\ emitted' = emitted \o <<"title", "text", "text">>
    /\ pc' = "date_range"
    /\ UNCHANGED <<sessionVars, error, df, widgetVars, df_filtered, kpis, cards, chartVars>>

\* lines 62-68: the date slider.  min()/max() of an empty Date column are NaT, and
\* NaT.date() raises ValueError.
DateSlider ==
    /\ pc = "date_range"
    /\ IF df.rows = <<>>
       THEN /\ Raise("ValueError")
            /\ UNCHANGED <<session, emitted, date_bounds, date_range>>
       ELSE LET lo == date(SeqMin(Column(df, "Date")))
                hi == date(SeqMax(Column(df, "Date")))
            IN /\ date_bounds' = <<lo, hi>>
               /\ date_range' = WidgetValue("date_range", <<lo, hi>>)
               /\ session' = Register("date_range", <<lo, hi>>)
               /\ emitted' = Append(emitted, "filter")
               /\ pc' = "sectors"
               /\ UNCHANGED error
    /\ UNCHANGED <<file, cache, reads, df, sector_options, status_options, sectors, statuses,
                   df_filtered, kpis, cards, chartVars>>

\* lines 71-75: the sector multiselect
SectorSelect ==
    /\ pc = "sectors"
    /\ IF Missing({"Client Sector"}) # {}
       THEN /\ Raise("KeyError")
            /\ UNCHANGED <<session, emitted, sector_options, sectors>>
       ELSE LET opts == Options(df, "Client Sector")
            IN /\ sector_options' = opts
               /\ sectors' = WidgetValue("sectors", Range(opts))
               /\ session' = Register("sectors", Range(opts))
               /\ emitted' = Append(emitted, "filter")
               /\ pc' = "statuses"
               /\ UNCHANGED error
    /\ UNCHANGED <<file, cache, reads, df, date_bounds, status_options, date_range, statuses,
                   df_filtered, kpis, cards, chartVars>>

\* lines 78-82: the status multiselect
StatusSelect ==
    /\ pc = "statuses"
    /\ IF Missing({"Status"}) # {}
       THEN /\ Raise("KeyError")
            /\ UNCHANGED <<session, emitted, status_options, statuses>>
       ELSE LET opts == Options(df, "Status")
            IN /\ status_options' = opts
               /\ statuses' = WidgetValue("statuses", Range(opts))
               /\ session' = Register("statuses", Range(opts))
               /\ emitted' = Append(emitted, "filter")
               /\ pc' = "filter"
               /\ UNCHANGED error
    /\ UNCHANGED <<file, cache, reads, df, date_bounds, sector_options, date_range, sectors,
                   df_filtered, kpis, cards, chartVars>>

\* lines 85-90: df_filtered = df[mask]
Filter ==
    /\ pc = "filter"
    /\ df_filtered' = Select(df, Len(df.rows), date_range, sectors, statuses)
    /\ pc' = "kpis"
    /\ UNCHANGED <<sessionVars, error, emitted, df, widgetVars, kpis, cards, chartVars>>

\* lines 93-97: the five KPIs
KPIs ==
    /\ pc = "kpis"
    /\ IF Missing({"PET Bottles Diverted", "Sale Price (INR)", "Profit (INR)",
                   "NRC Rating"}) # {}
       THEN /\ Raise("KeyError")
            /\ UNCHANGED kpis
       ELSE /\ kpis' =
                [total_projects |-> Len(df_filtered),
                 total_bottles |-> SeqSum(ViewColumn(df, df_filtered, "PET Bottles Diverted")),
                 total_revenue |-> SeqSum(ViewColumn(df, df_filtered, "Sale Price (INR)")),
                 total_profit |-> SeqSum(ViewColumn(df, df_filtered, "Profit (INR)")),
                 avg_nrc |-> mean(ViewColumn(df, df_filtered, "NRC Rating"))]
            /\ pc' = "cards"
            /\ UNCHANGED error
    /\ UNCHANGED <<sessionVars, emitted, df, widgetVars, df_filtered, cards, chartVars>>

\* lines 100-117: the five metric cards and a rule ("INR " stands for the rupee sign)
Cards ==
    /\ pc = "cards"
    /\ \E nrc \in Format2f(kpis.avg_nrc) :
          cards' =
            <<[label |-> "Total Projects", value |-> ToString(kpis.total_projects)],
              [label |-> "PET Bottles Diverted",
               value |-> FormatThousands(kpis.total_bottles)],
              [label |-> "Total Revenue",
               value |-> "INR " \o FormatThousands(kpis.total_revenue)],
              [label |-> "Total Profit",
               value |-> "INR " \o FormatThousands(kpis.total_profit)],
              [label |-> "Avg NRC Rating", value |-> nrc]>>
    /\ emitted' = emitted \o <<"metric", "metric", "metric", "metric", "metric", "text">>
    /\ pc' = "chart1"
    /\ UNCHANGED <<sessionVars, error, df, widgetVars, df_filtered, kpis, chartVars>>
\* lines 120-149: chart 1, one bar per project, sorted by Sale Price (INR)
Chart1 ==
    /\ pc = "chart1"
    /\ IF Missing({"Project Name", "Sale Price (INR)", "Profit (INR)"}) # {}
       THEN /\ Raise("KeyError")
            /\ emitted' = Append(emitted, "text")
            /\ UNCHANGED chart1_data
       ELSE /\ \E p \in ArgSorts(ViewColumn(df, df_filtered, "Sale Price (INR)")) :
                  chart1_data' =
                    [k \in DOMAIN p |->
                       LET i == df_filtered[p[k]]
                       IN [index |-> i, label |-> df.rows[i]["Project Name"],
                           value |-> df.rows[i]["Sale Price (INR)"], profit |-> df.rows[i]["Profit (INR)"]]]
            /\ emitted' = emitted \o <<"text", "chart">>
            /\ pc' = "chart2"
            /\ UNCHANGED error
    /\ UNCHANGED <<sessionVars, df, widgetVars, df_filtered, kpis, cards, chart2_data, chart3_data, chart4_data, chart5_data, chart6_data>>

\* lines 152-173: chart 2, Sale Price (INR) summed by Client Sector, sorted by the sum
Chart2 ==
    /\ pc = "chart2"
    /\ IF Missing({"Client Sector", "Sale Price (INR)"}) # {}
       THEN /\ Raise("KeyError")
            /\ emitted' = Append(emitted, "text")
            /\ UNCHANGED chart2_data
       ELSE LET groups == GroupBySum(ViewColumn(df, df_filtered, "Client Sector"),
                                     ViewColumn(df, df_filtered, "Sale Price (INR)"))
            IN /\ \E p \in ArgSorts([k \in DOMAIN groups |-> groups[k].value]) :
                     chart2_data' = Take(groups, p)
               /\ emitted' = emitted \o <<"text", "chart">>
               /\ pc' = "chart3"
               /\ UNCHANGED error
    /\ UNCHANGED <<sessionVars, df, widgetVars, df_filtered, kpis, cards, chart1_data, chart3_data, chart4_data, chart5_data, chart6_data>>

\* lines 176-197: chart 3, PET Bottles Diverted summed by Client Sector, sorted by the sum
Chart3 ==
    /\ pc = "chart3"
    /\ IF Missing({"Client Sector", "PET Bottles Diverted"}) # {}
       THEN /\ Raise("KeyError")
            /\ emitted' = Append(emitted, "text")
            /\ UNCHANGED chart3_data
       ELSE LET groups == GroupBySum(ViewColumn(df, df_filtered, "Client Sector"),
                                     ViewColumn(df, df_filtered, "PET Bottles Diverted"))
            IN /\ \E p \in ArgSorts([k \in DOMAIN groups |-> groups[k].value]) :
                     chart3_data' = Take(groups, p)
               /\ emitted' = emitted \o <<"text", "chart">>
               /\ pc' = "chart4"
               /\ UNCHANGED error
    /\ UNCHANGED <<sessionVars, df, widgetVars, df_filtered, kpis, cards, chart1_data, chart2_data, chart4_data, chart5_data, chart6_data>>

\* lines 200-219: chart 4, one bar per project, sorted by NRC Rating
Chart4 ==
    /\ pc = "chart4"
    /\ IF Missing({"Project Name", "NRC Rating"}) # {}
       THEN /\ Raise("KeyError")
            /\ emitted' = Append(emitted, "text")
            /\ UNCHANGED chart4_data
       ELSE /\ \E p \in ArgSorts(ViewColumn(df, df_filtered, "NRC Rating")) :
                  chart4_data' =
                    [k \in DOMAIN p |->
                       LET i == df_filtered[p[k]]
                       IN [index |-> i, label |-> df.rows[i]["Project Name"],
                           value |-> df.rows[i]["NRC Rating"]]]
            /\ emitted' = emitted \o <<"text", "chart">>
            /\ pc' = "chart5"
            /\ UNCHANGED error
    /\ UNCHANGED <<sessionVars, df, widgetVars, df_filtered, kpis, cards, chart1_data, chart2_data, chart3_data, chart5_data, chart6_data>>

\* lines 222-243: chart 5, Sale Price (INR) summed by Lead Source, sorted by the sum
Chart5 ==
    /\ pc = "chart5"
    /\ IF Missing({"Lead Source", "Sale Price (INR)"}) # {}
       THEN /\ Raise("KeyError")
            /\ emitted' = Append(emitted, "text")
            /\ UNCHANGED chart5_data
       ELSE LET groups == GroupBySum(ViewColumn(df, df_filtered, "Lead Source"),
                                     ViewColumn(df, df_filtered, "Sale Price (INR)"))
            IN /\ \E p \in ArgSorts([k \in DOMAIN groups |-> groups[k].value]) :
                     chart5_data' = Take(groups, p)
               /\ emitted' = emitted \o <<"text", "chart">>
               /\ pc' = "chart6"
               /\ UNCHANGED error
    /\ UNCHANGED <<sessionVars, df, widgetVars, df_filtered, kpis, cards, chart1_data, chart2_data, chart3_data, chart4_data, chart6_data>>

\* lines 246-265: chart 6, one bar per project, sorted by Square Footage Installed
Chart6 ==
    /\ pc = "chart6"
    /\ IF Missing({"Project Name", "Square Footage Installed"}) # {}
       THEN /\ Raise("KeyError")
            /\ emitted' = Append(emitted, "text")
            /\ UNCHANGED chart6_data
       ELSE /\ \E p \in ArgSorts(ViewColumn(df, df_filtered, "Square Footage Installed")) :
                  chart6_data' =
                    [k \in DOMAIN p |->
                       LET i == df_filtered[p[k]]
                       IN [index |-> i, label |-> df.rows[i]["Project Name"],
                           value |-> df.rows[i]["Square Footage Installed"]]]
            /\ emitted' = emitted \o <<"text", "chart">>
            /\ pc' = "table"
            /\ UNCHANGED error
    /\ UNCHANGED <<sessionVars, df, widgetVars, df_filtered, kpis, cards, chart1_data, chart2_data, chart3_data, chart4_data, chart5_data>>

\* lines 268-276: rule, subheader, the detail table of df_filtered, footer
Table ==
    /\ pc = "table"
    /\ emitted' = emitted \o <<"text", "text", "table", "text", "text">>
    /\ pc' = "done"
    /\ UNCHANGED <<sessionVars, error, df, widgetVars, df_filtered, kpis, cards, chartVars>>

----------------------------------------------------------------------------
(* The user *)

PassOver == pc \in {"done", "error"}

\* A rerun with the selections as they are (reload, or "Rerun" in the menu)
Rerun ==
    /\ PassOver
    /\ reads < MaxReads
    /\ ResetPass
    /\ UNCHANGED sessionVars

\* The user changes the date slider; the framework stores the value and reruns
ChangeDates ==
    /\ PassOver
    /\ reads < MaxReads
    /\ date_bounds # <<>>
    /\ \E v \in SliderValues(date_bounds) \ {session["date_range"]} :
          session' = [session EXCEPT !["date_range"] = v]
    /\ ResetPass
    /\ UNCHANGED <<file, cache, reads>>

\* The user changes the sector selection
ChangeSectors ==
    /\ PassOver
    /\ reads < MaxReads
    /\ sector_options # <<>>
    /\ \E v \in (SUBSET Range(sector_options)) \ {session["sectors"]} :
          session' = [session EXCEPT !["sectors"] = v]
    /\ ResetPass
    /\ UNCHANGED <<file, cache, reads>>

\* The user changes the status selection
ChangeStatuses ==
    /\ PassOver
    /\ reads < MaxReads
    /\ status_options # <<>>
    /\ \E v \in (SUBSET Range(status_options)) \ {session["statuses"]} :
          session' = [session EXCEPT !["statuses"] = v]
    /\ ResetPass
    /\ UNCHANGED <<file, cache, reads>>

Next ==
    \/ Config \/ Load \/ Title \/ DateSlider \/ SectorSelect \/ StatusSelect
    \/ Filter \/ KPIs \/ Cards
    \/ Chart1 \/ Chart2 \/ Chart3 \/ Chart4 \/ Chart5 \/ Chart6
    \/ Table
    \/ Rerun \/ ChangeDates \/ ChangeSectors \/ ChangeStatuses

Spec == Init /\ [][Next]_vars

----------------------------------------------------------------------------
(* Reading a state *)

ScriptOrder ==
    <<"config", "load", "title", "date_range", "sectors", "statuses", "filter", "kpis",
      "cards", "chart1", "chart2", "chart3", "chart4", "chart5", "chart6", "table", "done">>

Pos(step) == CHOOSE i \in DOMAIN ScriptOrder : ScriptOrder[i] = step

\* The step the pass is at, or the step at which it raised
Here == IF pc = "error" THEN error.at ELSE pc

\* The step has run to its end in the current pass
Ran(step) == Pos(Here) > Pos(step)

WellFormed == file.exists /\ file.columns = Required

Count(s, x) == Cardinality({i \in DOMAIN s : s[i] = x})

Days == {date(cache.rows[i]["Date"]) : i \in DOMAIN cache.rows}

FullSpan ==
    <<CHOOSE d \in Days : \A e \in Days : d <= e, CHOOSE d \in Days : \A e \in Days : d >= e>>

AllOf(c) == {cache.rows[i][c] : i \in DOMAIN cache.rows}

Values(chart) == [k \in DOMAIN chart |-> chart[k].value]

----------------------------------------------------------------------------
(* The claims *)

\* C1: whatever the selections, the Filtered View is a subset of the loaded table
\* (valid index labels, none repeated, in table order) and every row of it has its
\* calendar date within [start, end] inclusive, its client sector among the selected
\* sectors and its status among the selected statuses.
C1_FilteredViewSatisfiesPredicates ==
    Ran("filter") =>
        /\ \A k \in DOMAIN df_filtered : df_filtered[k] \in DOMAIN cache.rows
        /\ \A k, l \in DOMAIN df_filtered : k < l => df_filtered[k] < df_filtered[l]
        /\ \A k \in DOMAIN df_filtered :
              LET row == cache.rows[df_filtered[k]]
              IN /\ date(row["Date"]) \in date_range[1]..date_range[2]
                 /\ row["Client Sector"] \in sectors
                 /\ row["Status"] \in statuses

C1_Witness ==
    /\ Ran("filter")
    /\ df_filtered # <<>>
    /\ Len(df_filtered) < Len(cache.rows)
    /\ date_range # FullSpan
    /\ sectors # AllOf("Client Sector")
    /\ statuses # AllOf("Status")

\* C2: with the full date span and all sectors and all statuses of the loaded table
\* selected, the Filtered View is the whole loaded table.
C2_DefaultsKeepEveryRow ==
    ( /\ Ran("filter")
      /\ date_range = FullSpan
      /\ sectors = AllOf("Client Sector")
      /\ statuses = AllOf("Status") )
    => df_filtered = [i \in DOMAIN cache.rows |-> i]

\* the defaults, with a row late in the last day
C2_Witness ==
    /\ Ran("filter")
    /\ Len(cache.rows) = MaxRows
    /\ date_range = FullSpan
    /\ date_range[1] < date_range[2]
    /\ sectors = AllOf("Client Sector")
    /\ statuses = AllOf("Status")
    /\ \E i \in DOMAIN cache.rows :
          date(cache.rows[i]["Date"]) = date_range[2] /\ cache.rows[i]["Date"] % 24 > 0

\* C3: an empty sector selection or an empty status selection gives an empty Filtered
\* View, and the metrics then are 0 projects, 0 bottles, 0 revenue, 0 profit and a NaN
\* mean NRC, computed without an exception (loaded tables with all required columns).
C3_EmptySelectionEmptyView ==
    (WellFormed /\ Ran("filter") /\ (sectors = {} \/ statuses = {})) =>
        /\ df_filtered = <<>>
        /\ pc # "error"
        /\ Ran("kpis") =>
              /\ kpis.total_projects = 0
              /\ kpis.total_bottles = 0
              /\ kpis.total_revenue = 0
              /\ kpis.total_profit = 0
              /\ IsNaN(kpis.avg_nrc)

C3_Witness ==
    /\ Ran("kpis")
    /\ sectors = {}
    /\ statuses = AllOf("Status")
    /\ date_range = FullSpan
    /\ Len(cache.rows) >= 2

\* C4: each chart's bars are in non-decreasing order of the chart's value, and bars of
\* equal value keep the order of the input (table order for charts 1, 4 and 6, the
\* group-by's key order for charts 2, 3 and 5).
NonDecreasing(chart) ==
    \A k, l \in DOMAIN chart : k < l => chart[k].value <= chart[l].value

TiesInRowOrder(chart) ==
    \A k, l \in DOMAIN chart :
        (k < l /\ chart[k].value = chart[l].value) => chart[k].index < chart[l].index

TiesInKeyOrder(chart) ==
    \A k, l \in DOMAIN chart :
        (k < l /\ chart[k].value = chart[l].value) => Rank(chart[k].key) < Rank(chart[l].key)

C4_ChartsSortedAndStable ==
    /\ Ran("chart1") => NonDecreasing(chart1_data) /\ TiesInRowOrder(chart1_data)
    /\ Ran("chart2") => NonDecreasing(chart2_data) /\ TiesInKeyOrder(chart2_data)
    /\ Ran("chart3") => NonDecreasing(chart3_data) /\ TiesInKeyOrder(chart3_data)
    /\ Ran("chart4") => NonDecreasing(chart4_data) /\ TiesInRowOrder(chart4_data)
    /\ Ran("chart5") => NonDecreasing(chart5_data) /\ TiesInKeyOrder(chart5_data)
    /\ Ran("chart6") => NonDecreasing(chart6_data) /\ TiesInRowOrder(chart6_data)

\* The part of C4 that does not depend on the sort kind: the bars are non-decreasing.
ChartsNonDecreasing ==
    /\ NonDecreasing(chart1_data) /\ NonDecreasing(chart2_data)
    /\ NonDecreasing(chart3_data) /\ NonDecreasing(chart4_data)
    /\ NonDecreasing(chart5_data) /\ NonDecreasing(chart6_data)

\* C5: a pass over a missing file, or over a file without one of the required
\* columns, fails at the load step and has emitted no title, filter control, metric
\* card, chart or table.
C5_LoadErrorsFailAtLoad ==
    (~file.exists \/ file.columns # Required) =>
        /\ pc # "done"
        /\ pc = "error" =>
              /\ error.at = "load"
              /\ \A k \in DOMAIN emitted :
                    emitted[k] \notin {"title", "filter", "metric", "chart", "table"}

\* What the loader does check: a missing file or a missing Date column stops the pass
\* at the load step, with nothing but the style block emitted.
LoadChecksFileAndDate ==
    (~file.exists \/ "Date" \notin file.columns) =>
        /\ ~Ran("load")
        /\ cache = NoDF
        /\ \A k \in DOMAIN emitted : emitted[k] = "style"

\* C6: in every pass, whatever the stored selections, the sector options and status
\* options offered are the distinct sectors and statuses of the whole loaded table.
C6_OptionsFromLoadedTable ==
    /\ Ran("sectors") =>
          /\ Range(sector_options) = AllOf("Client Sector")
          /\ Len(sector_options) = Cardinality(AllOf("Client Sector"))
    /\ Ran("statuses") =>
          /\ Range(status_options) = AllOf("Status")
          /\ Len(status_options) = Cardinality(AllOf("Status"))

\* a pass whose stored selections keep no row, after narrowing the dates and
\* clearing the sectors
C6_Witness ==
    /\ Ran("statuses")
    /\ session["date_range"] # FullSpan
    /\ session["sectors"] = {}
    /\ Len(sector_options) >= 2
    /\ Len(status_options) >= 2
    /\ \E i \in DOMAIN cache.rows :
          date(cache.rows[i]["Date"]) \notin date_range[1]..date_range[2]

\* C7: once the loader has returned a table, the file has been read once and is never
\* read again, the cached table is what that read gave and never changes, and every
\* later pass works on that table.
C7_LoadedOnceNeverChanged ==
    /\ [][cache # NoDF => (cache' = cache /\ reads' = reads)]_vars
    /\ [](cache # NoDF => (reads = 1 /\ cache = ParseCSV(file)))
    /\ [](Ran("load") => df = cache)

\* the end of a later pass: the user has cleared the sectors, so a rerun has happened
C7_Witness ==
    /\ pc = "done"
    /\ session["sectors"] = {}
    /\ session["date_range"] # FullSpan
    /\ reads = 1
    /\ Len(cache.rows) = MaxRows

\* C8: over an empty Filtered View every chart has zero data points, no step raises,
\* the mean-NRC card shows the placeholder "nan", and the pass ends with five metric
\* cards, six charts and the table emitted (loaded tables with all required columns).
C8_EmptyViewRendersFully ==
    (WellFormed /\ Ran("filter") /\ df_filtered = <<>>) =>
        /\ pc # "error"
        /\ Ran("cards") => cards[5].value = "nan"
        /\ Ran("chart1") => chart1_data = <<>>
        /\ Ran("chart2") => chart2_data = <<>>
        /\ Ran("chart3") => chart3_data = <<>>
        /\ Ran("chart4") => chart4_data = <<>>
        /\ Ran("chart5") => chart5_data = <<>>
        /\ Ran("chart6") => chart6_data = <<>>
        /\ pc = "done" =>
              /\ Count(emitted, "metric") = 5
              /\ Count(emitted, "chart") = 6
              /\ Count(emitted, "table") = 1
        /\ pc # "done" => ENABLED (KPIs \/ Cards \/ Chart1 \/ Chart2 \/ Chart3 \/ Chart4
                                   \/ Chart5 \/ Chart6 \/ Table)

\* a finished pass over an empty view that the dates alone emptied
C8_Witness ==
    /\ pc = "done"
    /\ df_filtered = <<>>
    /\ Len(cache.rows) >= 2
    /\ sectors = AllOf("Client Sector")
    /\ statuses = AllOf("Status")

\* C9: for the fixture with sectors (A, B, A) and sale prices (100, 200, 300), all dates
\* and statuses selected: sectors {A} gives a view of 2 rows and a total revenue of 400,
\* and chart 2 over both sectors is [(B, 200), (A, 400)].
IsFixture ==
    /\ Column(cache, "Client Sector") = <<"A", "B", "A">>
    /\ Column(cache, "Sale Price (INR)") = <<100, 200, 300>>

C10_ChartsAddUpToMetrics ==
    /\ Ran("chart2") => SeqSum(Values(chart2_data)) = kpis.total_revenue
    /\ Ran("chart3") => SeqSum(Values(chart3_data)) = kpis.total_bottles
    /\ Ran("chart5") => SeqSum(Values(chart5_data)) = kpis.total_revenue

\* What the group-by does conserve: the bars add up to the metric taken over the rows
\* of the view whose grouping label is present.
Labelled(c) == SelectSeq(df_filtered, LAMBDA i : df.rows[i][c] # NaN)

ChartsAddUpOverLabelledRows ==
    /\ Ran("chart2") => SeqSum(Values(chart2_data)) =
          SeqSum(ViewColumn(df, Labelled("Client Sector"), "Sale Price (INR)"))
    /\ Ran("chart3") => SeqSum(Values(chart3_data)) =
          SeqSum(ViewColumn(df, Labelled("Client Sector"), "PET Bottles Diverted"))
    /\ Ran("chart5") => SeqSum(Values(chart5_data)) =
          SeqSum(ViewColumn(df, Labelled("Lead Source"), "Sale Price (INR)"))

====
